---- MODULE Spec2Model ----
(***************************************************************************)
(* Model of smt-switch's logging layer (src/src/logging_solver.cpp) and of *)
(* its sort inference (src/src/sort_inference.cpp).                        *)
(*                                                                         *)
(* Specifications:                                                         *)
(*   Spec    the LoggingSolver as a state machine (term construction and   *)
(*           reset): the term hash table, the heap of LoggingTerm objects, *)
(*           the inner backend.                                            *)
(*   SpecAlias   the same over an engine that represents Bool as BV(1).    *)
(*   SpecArr     the constant-array builder make_term(val, sort).          *)
(*   SpecModel   get_value and get_array_values after check_sat.           *)
(*   SpecFwd     the operations dispatched to the inner backend.           *)
(*   SpecSort    make_sort for the sort kinds with structure.              *)
(*   SpecUSort   uninterpreted sorts and sort constructors.                *)
(*   SpecTT      the TermTranslator (include/term_translator.h).           *)
(*   SpecCast    transfer_term(term, sk) and the casts of the translator.  *)
(*   SpecCS  check_sortedness as a pure function: Init draws an operator   *)
(*           and an argument sort vector, the action applies the function. *)
(***************************************************************************)
EXTENDS Integers, Sequences, FiniteSets, TLC

VARIABLES
  terms,        \* heap of LoggingTerm objects: terms[id] is the object id
  hashtable,    \* LoggingSolver::hashtable, the ids it holds
  handed,       \* ids of the terms returned to the caller
  stale,        \* ids handed out before the last reset()
  backend,      \* state of the inner solver
  caller_base,  \* the caller's out_const_base argument of get_array_values
  last,         \* the last call to the LoggingSolver and its outcome
  cs_pc,        \* check_sortedness: "idle", "call" or "done"
  cs_op,        \* check_sortedness: the operator
  cs_sorts,     \* check_sortedness: the sorts of the argument terms
  cs_ret,       \* check_sortedness: what the call produced
  cs_consulted, \* check_sortedness: the dispatch predicate was called
  sortheap,     \* heap of LoggingSort objects: sortheap[id] is the object id
  slast,        \* the last make_sort call and its outcome
  cache,        \* TermTranslator::cache: source term -> destination term
  dst_terms,    \* the terms of the destination solver, in order of creation
  prepop,       \* source symbols the caller put into the cache
  symcalls,     \* make_symbol calls of the translator, per source symbol
  returned,     \* what the first transfer_term of a source term returned
  tlast         \* the last call to the TermTranslator and its outcome

lsvars == <<terms, hashtable, handed, stale, backend, caller_base, last>>
csvars == <<cs_pc, cs_op, cs_sorts, cs_ret, cs_consulted>>
sortvars == <<sortheap, slast>>
ttvars == <<cache, dst_terms, prepop, symcalls, returned, tlast>>
\* what the operations on terms, on sorts and of the translator leave alone
nonlsvars == <<csvars, sortvars, ttvars>>
nonsortvars == <<lsvars, csvars, ttvars>>
nonttvars == <<lsvars, csvars, sortvars>>
vars == <<terms, hashtable, handed, stale, backend, caller_base, last,
          cs_pc, cs_op, cs_sorts, cs_ret, cs_consulted, sortheap, slast,
          cache, dst_terms, prepop, symcalls, returned, tlast>>

(***************************************************************************)
(* Bounds                                                                  *)
(***************************************************************************)
MaxArgs == 3        \* longest argument vector given to check_sortedness
MaxTerms == 3       \* LoggingTerm objects allocated
MaxApplied == 2     \* of these, applied terms (op not null)
MaxVec == 2         \* longest vector given to make_term(op, terms)
MaxDepth == 1       \* deepest assertion stack (push)
MaxAsserts == 1     \* formulas asserted between two resets
MaxAssign == 1      \* entries of the map the backend returns for an array
MaxSorts == 4       \* LoggingSort objects allocated
MaxDst == 3         \* destination terms before a transfer_term(term, sk)

(***************************************************************************)
(* Sorts: structural values (kind, width, parameter sorts).                *)
(***************************************************************************)
MkSort(k, w, ps) == [kind |-> k, width |-> w, params |-> ps]

BoolSort == MkSort("BOOL", 0, <<>>)
IntSort == MkSort("INT", 0, <<>>)
RealSort == MkSort("REAL", 0, <<>>)
BVSort(w) == MkSort("BV", w, <<>>)
ArraySort(i, e) == MkSort("ARRAY", 0, <<i, e>>)
\* make_sort(FUNCTION, SortVec): the last sort is the codomain
FunSort(ss) == MkSort("FUNCTION", 0, ss)

get_sort_kind(s) == s.kind
get_indexsort(s) == s.params[1]
get_elemsort(s) == s.params[2]
get_domain_sorts(s) == SubSeq(s.params, 1, Len(s.params) - 1)
get_codomain_sort(s) == s.params[Len(s.params)]

BV4 == BVSort(4)
BV8 == BVSort(8)
Arr48 == ArraySort(BV4, BV8)
Fun1 == FunSort(<<BV4, BV8>>)
Fun2 == FunSort(<<BV4, BV8, BoolSort>>)
Fun3 == FunSort(<<BV4, BV4, BV4, BV4>>)

\* the sorts the argument terms of check_sortedness are drawn from
ArgSorts == {BoolSort, IntSort, RealSort, BV4, BV8, Arr48, Fun1, Fun2, Fun3}

(***************************************************************************)
(* Operators                                                               *)
(***************************************************************************)
INF == 1000000

NullOp == "NULL"

\* an operator without an entry in sort_check_dispatch
UnknownOp == "Unknown_Op"

PrimOps == {"And", "Not", "Ite", "Equal", "Distinct", "Apply", "Plus",
            "Lt", "Le", "Gt", "Ge", "BVAdd", "Select", "Store", UnknownOp}

get_arity(po) ==
  CASE po = "And" -> <<2, INF>>
    [] po = "Not" -> <<1, 1>>
    [] po = "Ite" -> <<3, 3>>
    [] po = "Equal" -> <<2, 2>>
    [] po = "Distinct" -> <<2, INF>>
    [] po = "Apply" -> <<2, INF>>
    [] po = "Plus" -> <<2, INF>>
    [] po \in {"Lt", "Le", "Gt", "Ge"} -> <<2, 2>>
    [] po = "BVAdd" -> <<2, INF>>
    [] po = "Select" -> <<2, 2>>
    [] po = "Store" -> <<3, 3>>
    [] OTHER -> <<1, 2>>

(***************************************************************************)
(* Sort predicates                                                         *)
(***************************************************************************)
check_sortkind_matches(sk, sorts) ==
  \A i \in 1..Len(sorts) : get_sort_kind(sorts[i]) = sk

equal_sorts(sorts) ==
  \A i \in 1..(Len(sorts) - 1) : sorts[i] = sorts[i + 1]

bool_sorts(sorts) == check_sortkind_matches("BOOL", sorts)
int_sorts(sorts) == check_sortkind_matches("INT", sorts)
real_sorts(sorts) == check_sortkind_matches("REAL", sorts)
bv_sorts(sorts) == check_sortkind_matches("BV", sorts)
arithmetic_sorts(sorts) == int_sorts(sorts) \/ real_sorts(sorts)
eq_bv_sorts(sorts) == bv_sorts(sorts) /\ equal_sorts(sorts)

\* check_ite_sorts comparing only the sort kinds of the two branches
check_ite_sorts_branch_kinds(sorts) ==
  /\ get_sort_kind(sorts[1]) = "BOOL"
  /\ get_sort_kind(sorts[2]) = get_sort_kind(sorts[3])

check_ite_sorts(sorts) ==
  get_sort_kind(sorts[1]) = "BOOL" /\ sorts[2] = sorts[3]

\* the outcomes of reading sorts[i + 1] past the end of the vector
OutOfBoundsRead == {"true", "false", "crash"}

RECURSIVE apply_loop(_, _, _)
apply_loop(domain_sorts, sorts, i) ==
  IF i > Len(domain_sorts) THEN {"true"}
  ELSE IF i + 1 > Len(sorts) THEN OutOfBoundsRead
  ELSE IF domain_sorts[i] # sorts[i + 1] THEN {"false"}
  ELSE apply_loop(domain_sorts, sorts, i + 1)

check_apply_sorts(sorts) ==
  LET funsort == sorts[1] IN
  IF get_sort_kind(funsort) # "FUNCTION" THEN {"false"}
  ELSE LET domain_sorts == get_domain_sorts(funsort) IN
       IF Len(domain_sorts) # Len(sorts) + 1 THEN {"false"}
       ELSE apply_loop(domain_sorts, sorts, 1)

check_select_sorts(sorts) ==
  IF Len(sorts) # 2 THEN FALSE
  ELSE IF get_sort_kind(sorts[1]) # "ARRAY" THEN FALSE
  ELSE IF sorts[2] # get_indexsort(sorts[1]) THEN FALSE
  ELSE TRUE

\* check_store_sorts without the test of the stored value's sort
check_store_sorts_no_elem(sorts) ==
  IF Len(sorts) # 3 THEN FALSE
  ELSE IF get_sort_kind(sorts[1]) # "ARRAY" THEN FALSE
  ELSE IF sorts[2] # get_indexsort(sorts[1]) THEN FALSE
  ELSE TRUE

check_store_sorts(sorts) ==
  IF Len(sorts) # 3 THEN FALSE
  ELSE IF get_sort_kind(sorts[1]) # "ARRAY" THEN FALSE
  ELSE IF sorts[2] # get_indexsort(sorts[1]) THEN FALSE
  ELSE IF sorts[3] # get_elemsort(sorts[1]) THEN FALSE
  ELSE TRUE

\* the predicate sort_check_dispatch holds for a primitive operator
sort_check_dispatch(po) ==
  CASE po \in {"And", "Not"} -> "bool_sorts"
    [] po = "Ite" -> "check_ite_sorts"
    [] po \in {"Equal", "Distinct"} -> "bool_sorts"
    [] po = "Apply" -> "check_apply_sorts"
    [] po = "Plus" -> "arithmetic_sorts"
    [] po \in {"Lt", "Le", "Gt", "Ge"} -> "bool_sorts"
    [] po = "BVAdd" -> "eq_bv_sorts"
    [] po = "Select" -> "check_select_sorts"
    [] po = "Store" -> "check_store_sorts"
    [] OTHER -> "none"

BoolRet(b) == IF b THEN {"true"} ELSE {"false"}

\* the call sort_check_dispatch.at(po)(sorts): the set of its outcomes
dispatch_call(fn, sorts) ==
  CASE fn = "bool_sorts" -> BoolRet(bool_sorts(sorts))
    [] fn = "check_ite_sorts" -> BoolRet(check_ite_sorts(sorts))
    [] fn = "check_apply_sorts" -> check_apply_sorts(sorts)
    [] fn = "arithmetic_sorts" -> BoolRet(arithmetic_sorts(sorts))
    [] fn = "eq_bv_sorts" -> BoolRet(eq_bv_sorts(sorts))
    [] fn = "check_select_sorts" -> BoolRet(check_select_sorts(sorts))
    [] fn = "check_store_sorts" -> BoolRet(check_store_sorts(sorts))

\* check_sortedness with the dispatch lookup made before the arity check
check_sortedness_lookup_first(po, sorts) ==
  LET min_max_arity == get_arity(po)
      num_args == Len(sorts)
  IN IF sort_check_dispatch(po) = "none"
     THEN [rets |-> {"NotImplemented"}, consulted |-> FALSE]
     ELSE IF num_args < min_max_arity[1] \/ num_args > min_max_arity[2]
          THEN [rets |-> {"false"}, consulted |-> FALSE]
          ELSE [rets |-> dispatch_call(sort_check_dispatch(po), sorts),
                consulted |-> TRUE]

\* check_sortedness with the upper arity bound left unchecked
check_sortedness_no_max(po, sorts) ==
  LET min_max_arity == get_arity(po)
      num_args == Len(sorts)
  IN IF num_args < min_max_arity[1]
     THEN [rets |-> {"false"}, consulted |-> FALSE]
     ELSE IF sort_check_dispatch(po) # "none"
          THEN [rets |-> dispatch_call(sort_check_dispatch(po), sorts),
                consulted |-> TRUE]
          ELSE [rets |-> {"NotImplemented"}, consulted |-> FALSE]

\* check_sortedness(op, terms), on the sorts of the terms: the set of its
\* outcomes and whether the per-operator predicate was called
check_sortedness(po, sorts) ==
  LET min_max_arity == get_arity(po)
      num_args == Len(sorts)
  IN IF num_args < min_max_arity[1] \/ num_args > min_max_arity[2]
     THEN [rets |-> {"false"}, consulted |-> FALSE]
     ELSE IF sort_check_dispatch(po) # "none"
          THEN [rets |-> dispatch_call(sort_check_dispatch(po), sorts),
                consulted |-> TRUE]
          ELSE [rets |-> {"NotImplemented"}, consulted |-> FALSE]

(***************************************************************************)
(* SpecCS: check_sortedness applied to every operator and sort vector      *)
(***************************************************************************)
SortVecs == UNION {[1..n -> ArgSorts] : n \in 0..MaxArgs}

\* new LoggingTerm(wrapped, sort, op, children[, name]); value is the printed
\* form of the wrapped backend term when that term is a value
LoggingTerm(o, s, ch, n, v) ==
  [op |-> o, sort |-> s, children |-> ch, name |-> n, value |-> v]

\* the sort argument of a call that has none
NoSort == MkSort("NONE", 0, <<>>)

NoCall == [call |-> "none", op |-> NullOp, args |-> <<>>, ret |-> <<>>,
           err |-> "", base |-> "null", sort |-> NoSort]

BackendInit(l) ==
  [alias |-> l, declared |-> {}, depth |-> 0, nassert |-> 0,
   model |-> FALSE, logic |-> "", opt |-> ""]

LSInit ==
  /\ terms = <<>>
  /\ hashtable = {}
  /\ handed = {}
  /\ stale = {}
  /\ caller_base = 0
  /\ last = NoCall

\* no sort has been made
NoSortCall == [call |-> "none", args |-> <<>>, name |-> "", arity |-> 0,
               ret |-> 0, err |-> ""]

SortIdle == sortheap = <<>> /\ slast = NoSortCall

\* the terms of the source solver the translator is given: the hash-consed
\* terms of a LoggingSolver, children by their position in the sequence
SrcTerms ==
  << LoggingTerm(NullOp, BoolSort, <<>>, "c", ""),
     LoggingTerm(NullOp, BV4, <<>>, "x", ""),
     LoggingTerm(NullOp, BV4, <<>>, "", "#b0000"),
     LoggingTerm("BVAdd", BV4, <<2, 3>>, "", ""),
     LoggingTerm("Ite", BV4, <<1, 4, 2>>, "", ""),
     LoggingTerm("Ite", BV4, <<1, 5, 2>>, "", ""),
     LoggingTerm(NullOp, IntSort, <<>>, "i", ""),
     LoggingTerm(NullOp, RealSort, <<>>, "r", ""),
     LoggingTerm(NullOp, Arr48, <<>>, "m", ""),
     LoggingTerm(NullOp, BoolSort, <<>>, "", "true") >>

SrcIds == 1..Len(SrcTerms)
SrcSymbols == {t \in SrcIds : SrcTerms[t].name # ""}

\* the terms over Bool and BV, given to transfer_term(term)
TransferIds == {t \in SrcIds :
                  get_sort_kind(SrcTerms[t].sort) \in {"BOOL", "BV"}
                  /\ SrcTerms[t].value # "true"}

NoTTCall == [call |-> "none", arg |-> 0, ret |-> 0, err |-> "",
             n_make_term |-> 0, n_make_symbol |-> 0, n_cast |-> 0,
             sk |-> "NONE", translated |-> 0]

\* TermTranslator(s): an empty cache, nothing transferred to the destination
TTInit ==
  /\ cache = [t \in SrcIds |-> 0]
  /\ dst_terms = <<>>
  /\ prepop = {}
  /\ symcalls = [t \in SrcIds |-> 0]
  /\ returned = [t \in SrcIds |-> 0]
  /\ tlast = NoTTCall

InitCS ==
  /\ LSInit
  /\ SortIdle
  /\ TTInit
  /\ backend = BackendInit(FALSE)
  /\ cs_pc = "call"
  /\ cs_op \in PrimOps
  /\ cs_sorts \in SortVecs
  /\ cs_ret = "none"
  /\ cs_consulted = FALSE

CheckSortednessCall ==
  /\ cs_pc = "call"
  /\ LET r == check_sortedness(cs_op, cs_sorts) IN
       /\ cs_ret' \in r.rets
       /\ cs_consulted' = r.consulted
  /\ cs_pc' = "done"
  /\ UNCHANGED <<cs_op, cs_sorts>>
  /\ UNCHANGED <<lsvars, sortvars, ttvars>>

NextCS == CheckSortednessCall

SpecCS == InitCS /\ [][NextCS]_vars

(***************************************************************************)
(* LoggingTerm, TermHashTable                                              *)
(***************************************************************************)
\* LoggingTerm::compare: op, sort, children and, for leaves, the symbol name
\* and the backend value
RECURSIVE TermEq(_, _)
TermEq(a, b) ==
  /\ a.op = b.op
  /\ a.sort = b.sort
  /\ a.name = b.name
  /\ a.value = b.value
  /\ Len(a.children) = Len(b.children)
  /\ \A i \in 1..Len(a.children) :
       TermEq(terms[a.children[i]], terms[b.children[i]])

\* TermHashTable::lookup: the entries equal to the candidate
lookup(cand) == {id \in hashtable : TermEq(terms[id], cand)}

\* the terms the caller holds and may pass to the solver
Usable == handed \ stale

\* the applied terms allocated so far
NumApplied == Cardinality({i \in 1..Len(terms) : terms[i].op # NullOp})

\* there is room for n more objects shaped like the candidate
Room(cand, n) ==
  /\ Len(terms) + n <= MaxTerms
  /\ cand.op # NullOp => NumApplied + n <= MaxApplied

SortsOf(ch) == [i \in 1..Len(ch) |-> terms[ch[i]].sort]

(***************************************************************************)
(* compute_sort and the inner backend                                      *)
(***************************************************************************)
ErrorSort == MkSort("ERROR", 0, <<>>)

\* compute_sort(op, sorts, backend sort): the result sort of an application
compute_sort(po, sorts) ==
  CASE po \in {"And", "Not", "Equal", "Distinct", "Lt", "Le", "Gt", "Ge"}
         -> BoolSort
    [] po \in {"Plus", "BVAdd"} -> sorts[1]
    [] po = "Ite" -> sorts[2]
    [] po = "Select" ->
         IF get_sort_kind(sorts[1]) = "ARRAY" THEN get_elemsort(sorts[1])
         ELSE ErrorSort
    [] po = "Store" -> sorts[1]
    [] po = "Apply" ->
         IF get_sort_kind(sorts[1]) = "FUNCTION"
         THEN get_codomain_sort(sorts[1]) ELSE ErrorSort
    [] OTHER -> ErrorSort

\* the sort the engine gives a term: an engine without a Bool sort
\* (backend.alias) represents Bool as BV(1)
BackendSort(s) == IF backend.alias /\ s = BoolSort THEN BVSort(1) ELSE s

BackendBool == BackendSort(BoolSort)

\* the applications the engine accepts, on the engine's sorts; UnknownOp is
\* an operator of the engine that sort inference has no rule for
BackendWellSorted(po, bs) ==
  CASE po \in {"And", "Not"} -> \A i \in 1..Len(bs) : bs[i] = BackendBool
    [] po = "Ite" -> bs[1] = BackendBool /\ bs[2] = bs[3]
    [] po \in {"Equal", "Distinct"} -> equal_sorts(bs)
    [] po \in {"Plus", "Lt", "Le", "Gt", "Ge"} -> arithmetic_sorts(bs)
    [] po = "BVAdd" -> eq_bv_sorts(bs)
    [] po = "Select" -> check_select_sorts(bs)
    [] po = "Store" -> check_store_sorts(bs)
    [] po = UnknownOp -> TRUE
    [] OTHER -> FALSE

\* solver->make_term(op, children) returns a term (does not throw)
BackendAccepts(po, sorts) ==
  /\ Len(sorts) >= get_arity(po)[1]
  /\ Len(sorts) <= get_arity(po)[2]
  /\ BackendWellSorted(po, [i \in 1..Len(sorts) |-> BackendSort(sorts[i])])

\* the values the backend's model gives to a term of a sort
ValuesOf(s) ==
  CASE get_sort_kind(s) = "BOOL" -> {"true", "false"}
    [] get_sort_kind(s) = "BV" -> {"#b0"}
    [] OTHER -> {"(as const)"}

(***************************************************************************)
(* LoggingSolver: term construction                                        *)
(***************************************************************************)
\* base: what the inner backend reported as the constant base of an array;
\* sort: the sort argument of make_term(val, sort)
Call(c, o, a, r, e) ==
  [call |-> c, op |-> o, args |-> a, ret |-> r, err |-> e, base |-> "null",
   sort |-> NoSort]

\* a call that threw: nothing but the record of the call changes
Throws(c, o, a, e) ==
  /\ last' = Call(c, o, a, <<>>, e)
  /\ UNCHANGED <<terms, hashtable, handed, stale, backend, caller_base>>

\* the candidate is inserted without looking it up
hash_cons_always_insert(cand, c, o, a) ==
  /\ Room(cand, 1)
  /\ terms' = Append(terms, cand)
  /\ hashtable' = hashtable \cup {Len(terms) + 1}
  /\ handed' = handed \cup {Len(terms) + 1}
  /\ last' = Call(c, o, a, <<Len(terms) + 1>>, "")

\* if (!hashtable->lookup(res)) hashtable->insert(res); return res;
hash_cons(cand, c, o, a) ==
  IF lookup(cand) # {}
  THEN \E id \in lookup(cand) :
         /\ handed' = handed \cup {id}
         /\ last' = Call(c, o, a, <<id>>, "")
         /\ UNCHANGED <<terms, hashtable>>
  ELSE /\ Room(cand, 1)
       /\ terms' = Append(terms, cand)
       /\ hashtable' = hashtable \cup {Len(terms) + 1}
       /\ handed' = handed \cup {Len(terms) + 1}
       /\ last' = Call(c, o, a, <<Len(terms) + 1>>, "")

\* make_term(bool b)
make_term_bool ==
  /\ \E b \in {"true", "false"} :
       hash_cons(LoggingTerm(NullOp, BoolSort, <<>>, "", b),
                 "make_term_bool", NullOp, <<>>)
  /\ UNCHANGED <<stale, backend, caller_base>>

\* the sorts the caller gives to make_term(val, sort)
ConstArraySorts == {ArraySort(BV4, BoolSort), Arr48, BoolSort, BV4}

\* solver->make_term(val, sort) of the inner backend: it returns a constant
\* array when sort is an array sort whose element sort is val's; what an
\* engine does with another sort is the engine's business, it may raise its
\* own error or return a term
BackendConstArray(valsort, sort) ==
  IF get_sort_kind(sort) = "ARRAY"
  THEN (IF BackendSort(get_elemsort(sort)) = BackendSort(valsort)
        THEN {"term"} ELSE {"throws"})
  ELSE {"term", "throws"}

\* make_term(val, sort) without the test of the sort kind
make_term_const_array_no_kind_test ==
  \E val \in Usable, sort \in ConstArraySorts :
    \E wrapped_res \in BackendConstArray(terms[val].sort, sort) :
      IF wrapped_res = "throws"
      THEN /\ last' = [Call("make_term_const_array", NullOp, <<val>>, <<>>,
                            "BackendFailure") EXCEPT !.sort = sort]
           /\ UNCHANGED <<terms, hashtable, handed, stale, backend,
                          caller_base>>
      ELSE /\ hash_cons(LoggingTerm(NullOp, sort, <<val>>, "", ""),
                        "make_term_const_array", NullOp, <<val>>)
           /\ UNCHANGED <<stale, backend, caller_base>>

\* make_term(val, sort), the constant-array builder: the backend is called
\* first, then the sort kind is tested
make_term_const_array ==
  \E val \in Usable, sort \in ConstArraySorts :
    \E wrapped_res \in BackendConstArray(terms[val].sort, sort) :
      IF wrapped_res = "throws"
      THEN /\ last' = [Call("make_term_const_array", NullOp, <<val>>, <<>>,
                            "BackendFailure") EXCEPT !.sort = sort]
           /\ UNCHANGED <<terms, hashtable, handed, stale, backend,
                          caller_base>>
      ELSE IF get_sort_kind(sort) # "ARRAY"
      THEN /\ last' = [Call("make_term_const_array", NullOp, <<val>>, <<>>,
                            "IncorrectUsage") EXCEPT !.sort = sort]
           /\ UNCHANGED <<terms, hashtable, handed, stale, backend,
                          caller_base>>
      ELSE /\ hash_cons(LoggingTerm(NullOp, sort, <<val>>, "", ""),
                        "make_term_const_array", NullOp, <<val>>)
           /\ UNCHANGED <<stale, backend, caller_base>>

\* the symbols the caller declares
TermSymbols == {"x", "b"}
ModelSymbols == {"b", "a", "m"}
SymbolSort(n) ==
  CASE n = "x" -> BV4
    [] n = "b" -> BoolSort
    [] n = "a" -> Arr48
    [] n = "m" -> ArraySort(BV4, Arr48)

\* make_symbol(name, sort)
make_symbol(names) ==
  \E n \in names :
    IF n \in backend.declared
    THEN Throws("make_symbol", NullOp, <<>>, "BackendFailure")
    ELSE /\ hash_cons(LoggingTerm(NullOp, SymbolSort(n), <<>>, n, ""),
                      "make_symbol", NullOp, <<>>)
         /\ backend' = [backend EXCEPT !.declared = @ \cup {n}]
         /\ UNCHANGED <<stale, caller_base>>

\* the operators the caller applies, by the number of their arguments
UnaryOps == {"Not"}
BinaryOps == {"Equal", "BVAdd"}
TernaryOps == {"Ite"}
NaryOps == {"BVAdd"}

\* the overloads with the candidate inserted before the backend is called
make_term_op_insert_first(c, po, ch) ==
  IF \/ ~BackendAccepts(po, SortsOf(ch))
     \/ compute_sort(po, SortsOf(ch)) = ErrorSort
  THEN /\ Len(terms) < MaxTerms
       /\ terms' = Append(terms, LoggingTerm(po, NoSort, ch, "", ""))
       /\ hashtable' = hashtable \cup {Len(terms) + 1}
       /\ last' = Call(c, NullOp, <<>>, <<>>, "BackendFailure")
       /\ UNCHANGED <<handed, stale, backend, caller_base>>
  ELSE /\ hash_cons(LoggingTerm(po, compute_sort(po, SortsOf(ch)), ch, "", ""),
                    c, po, ch)
       /\ UNCHANGED <<stale, backend, caller_base>>

\* the common body of the four make_term(op, ...) overloads
make_term_op(c, po, ch) ==
  IF ~BackendAccepts(po, SortsOf(ch))
  THEN Throws(c, NullOp, <<>>, "BackendFailure")
  ELSE IF compute_sort(po, SortsOf(ch)) = ErrorSort
  THEN Throws(c, NullOp, <<>>, "NotImplemented")
  ELSE /\ hash_cons(LoggingTerm(po, compute_sort(po, SortsOf(ch)), ch, "", ""),
                    c, po, ch)
       /\ UNCHANGED <<stale, backend, caller_base>>

\* make_term(op, t) with the operator drawn from ops
make_term_unary(ops) ==
  \E po \in ops, t \in Usable : make_term_op("make_term", po, <<t>>)

\* make_term(op, t)
make_term_1 == make_term_unary(UnaryOps)

\* make_term(op, t1, t2)
make_term_2 ==
  \E po \in BinaryOps, t1 \in Usable, t2 \in Usable :
    make_term_op("make_term", po, <<t1, t2>>)

\* make_term(op, t1, t2, t3)
make_term_3 ==
  \E po \in TernaryOps, t1 \in Usable, t2 \in Usable, t3 \in Usable :
    make_term_op("make_term", po, <<t1, t2, t3>>)

\* make_term(op, terms) with a vector of a length drawn from lens
make_term_nary(lens) ==
  \E po \in NaryOps, n \in lens :
    \E ch \in [1..n -> Usable] : make_term_op("make_term", po, ch)

\* make_term(op, terms)
make_term_vec == make_term_nary(1..MaxVec)

(***************************************************************************)
(* LoggingSolver: model queries                                            *)
(***************************************************************************)
\* get_value(t): the value is wrapped in a new LoggingTerm and returned
get_value ==
  /\ backend.model
  /\ Len(terms) < MaxTerms
  /\ \E t \in Usable : \E v \in ValuesOf(terms[t].sort) :
       /\ terms' = Append(terms,
                          LoggingTerm(NullOp, terms[t].sort, <<>>, "", v))
       /\ handed' = handed \cup {Len(terms) + 1}
       /\ last' = Call("get_value", NullOp, <<>>, <<Len(terms) + 1>>, "")
  /\ UNCHANGED <<hashtable, stale, backend, caller_base>>

\* the maps solver->get_array_values may return for an array of a sort:
\* sequences of (index value, element value) with distinct indices
BackendAssignments(arrsort) ==
  {m \in UNION {[1..n -> ValuesOf(get_indexsort(arrsort))
                            \X ValuesOf(get_elemsort(arrsort))] :
                n \in 0..MaxAssign} :
     \A i, j \in 1..Len(m) : i # j => m[i][1] # m[j][1]}

\* the constant bases solver->get_array_values may report: none, an element
\* or, for a multidimensional array, an array
BackendConstBases(arrsort) ==
  {"null"} \cup
  (IF get_sort_kind(get_elemsort(arrsort)) = "ARRAY" THEN {"array"}
   ELSE {"elem"})

\* the LoggingTerms built for the entries of the map, in order
RECURSIVE WrapAssignments(_, _, _)
WrapAssignments(m, idxsort, elemsort) ==
  IF m = <<>> THEN <<>>
  ELSE <<LoggingTerm(NullOp, idxsort, <<>>, "", m[1][1]),
         LoggingTerm(NullOp, elemsort, <<>>, "", m[1][2])>>
       \o WrapAssignments(Tail(m), idxsort, elemsort)

\* what get_array_values does once the backend has returned the map m and
\* the constant base: the map is wrapped entry by entry.  out_const_base is
\* a by-value parameter (Term out_const_base): the wrapped base is assigned
\* to the callee's copy, which dies at the return, and the caller's Term is
\* left as it was
wrap_array_values(arr, m, base) ==
  LET new == WrapAssignments(m, get_indexsort(terms[arr].sort),
                             get_elemsort(terms[arr].sort))
      ids == [i \in 1..Len(new) |-> Len(terms) + i]
  IN /\ Len(terms) + Len(new) <= MaxTerms
     /\ terms' = terms \o new
     /\ handed' = handed \cup {ids[i] : i \in 1..Len(ids)}
     /\ last' = [Call("get_array_values", NullOp, <<arr>>, ids, "")
                   EXCEPT !.base = base]
     /\ caller_base' = caller_base
     /\ UNCHANGED <<hashtable, stale, backend>>

\* get_array_values without the test of the base's sort kind
get_array_values_no_array_test ==
  /\ backend.model
  /\ \E arr \in Usable :
       /\ get_sort_kind(terms[arr].sort) = "ARRAY"
       /\ \E m \in BackendAssignments(terms[arr].sort),
             base \in BackendConstBases(terms[arr].sort) :
            wrap_array_values(arr, m, base)

\* get_array_values(arr, out_const_base)
get_array_values ==
  /\ backend.model
  /\ \E arr \in Usable :
       /\ get_sort_kind(terms[arr].sort) = "ARRAY"
       /\ \E m \in BackendAssignments(terms[arr].sort),
             base \in BackendConstBases(terms[arr].sort) :
            IF base = "array"
            THEN /\ last' = [Call("get_array_values", NullOp, <<arr>>, <<>>,
                                  "NotImplemented") EXCEPT !.base = base]
                 /\ UNCHANGED <<terms, hashtable, handed, stale, backend,
                                caller_base>>
            ELSE wrap_array_values(arr, m, base)

(***************************************************************************)
(* LoggingSolver: reset and the operations dispatched to the backend       *)
(***************************************************************************)
\* reset() that resets the backend only
reset_keeps_hashtable ==
  /\ backend' = BackendInit(backend.alias)
  /\ stale' = handed
  /\ last' = Call("reset", NullOp, <<>>, <<>>, "")
  /\ UNCHANGED <<terms, hashtable, handed, caller_base>>

\* reset(): solver->reset(); hashtable->clear();
reset ==
  /\ backend' = BackendInit(backend.alias)
  /\ hashtable' = {}
  /\ stale' = handed
  /\ last' = Call("reset", NullOp, <<>>, <<>>, "")
  /\ UNCHANGED <<terms, handed, caller_base>>

Forwarded(c, a, b) ==
  /\ backend' = b
  /\ last' = Call(c, NullOp, <<>>, <<>>, "")
  /\ UNCHANGED <<terms, hashtable, handed, stale, caller_base>>

\* set_opt(option, value)
set_opt ==
  \E o \in {"incremental"} :
    Forwarded("set_opt", <<>>, [backend EXCEPT !.opt = o])

\* set_logic(logic)
set_logic ==
  \E l \in {"QF_ABV"} :
    Forwarded("set_logic", <<>>, [backend EXCEPT !.logic = l])

\* assert_formula(t)
assert_formula ==
  \E t \in Usable :
    IF terms[t].sort # BoolSort
    THEN Throws("assert_formula", NullOp, <<>>, "BackendFailure")
    ELSE /\ backend.nassert < MaxAsserts
         /\ Forwarded("assert_formula", <<t>>,
                      [backend EXCEPT !.nassert = @ + 1, !.model = FALSE])

\* check_sat()
check_sat ==
  \E r \in {"sat", "unsat", "unknown"} :
    Forwarded("check_sat", <<>>, [backend EXCEPT !.model = (r = "sat")])

\* check_sat_assuming(assumptions)
check_sat_assuming ==
  \E n \in 0..1 : \E as \in [1..n -> Usable] :
    IF \E i \in 1..n : terms[as[i]].sort # BoolSort
    THEN Throws("check_sat_assuming", NullOp, <<>>, "BackendFailure")
    ELSE \E r \in {"sat", "unsat", "unknown"} :
           Forwarded("check_sat_assuming", as,
                     [backend EXCEPT !.model = (r = "sat")])

\* push(num)
push ==
  \E num \in 1..MaxDepth :
    /\ backend.depth + num <= MaxDepth
    /\ Forwarded("push", <<>>,
                 [backend EXCEPT !.depth = @ + num, !.model = FALSE])

\* pop(num)
pop ==
  \E num \in 1..MaxDepth :
    IF num > backend.depth
    THEN Throws("pop", NullOp, <<>>, "BackendFailure")
    ELSE Forwarded("pop", <<>>,
                   [backend EXCEPT !.depth = @ - num, !.nassert = 0,
                                   !.model = FALSE])

\* reset_assertions() that clears the hash table as reset() does
reset_assertions_clears_hashtable ==
  /\ backend' = [backend EXCEPT !.depth = 0, !.nassert = 0, !.model = FALSE]
  /\ hashtable' = {}
  /\ last' = Call("reset_assertions", NullOp, <<>>, <<>>, "")
  /\ UNCHANGED <<terms, handed, stale, caller_base>>

\* reset_assertions()
reset_assertions ==
  Forwarded("reset_assertions", <<>>,
            [backend EXCEPT !.depth = 0, !.nassert = 0, !.model = FALSE])

(***************************************************************************)
(* LoggingSort and LoggingSolver::make_sort                                *)
(***************************************************************************)
\* a LoggingSort object: the kind and the parameters the caller gave (the
\* parameter sorts are LoggingSort objects, held by reference) and sort, the
\* wrapped sort of the inner backend
LoggingSort(k, w, ps, n, a, wrapped) ==
  [kind |-> k, width |-> w, params |-> ps, name |-> n, arity |-> a,
   sort |-> wrapped]

\* the sorts of the inner backend are values of the engine: an uninterpreted
\* sort or sort constructor by its name and arity
BackendUSort(k, n, a, ps) ==
  [kind |-> k, width |-> a, params |-> ps, name |-> n]

\* LoggingSort::compare with the parameter sorts compared by identity
compare_params_by_identity(h, a, b) ==
  /\ h[a].kind = h[b].kind
  /\ h[a].width = h[b].width
  /\ h[a].name = h[b].name
  /\ h[a].arity = h[b].arity
  /\ h[a].params = h[b].params

\* LoggingSort::compare (operator== of two Sort handles): same kind, same
\* width, parameter sorts equal in turn
RECURSIVE compare(_, _, _)
compare(h, a, b) ==
  /\ h[a].kind = h[b].kind
  /\ h[a].width = h[b].width
  /\ h[a].name = h[b].name
  /\ h[a].arity = h[b].arity
  /\ Len(h[a].params) = Len(h[b].params)
  /\ \A i \in 1..Len(h[a].params) : compare(h, h[a].params[i], h[b].params[i])

HashMod == 64

KindCode(k) ==
  CASE k = "BOOL" -> 1
    [] k = "INT" -> 2
    [] k = "REAL" -> 3
    [] k = "BV" -> 4
    [] k = "ARRAY" -> 5
    [] k = "FUNCTION" -> 6
    [] OTHER -> 7

\* the hash the inner backend gives one of its sorts: a function of the
\* structure of the sort
RECURSIVE BackendHash(_)
RECURSIVE BackendHashSeq(_, _)
BackendHash(bs) ==
  (KindCode(bs.kind) + 7 * bs.width + BackendHashSeq(bs.params, 1)) % HashMod

BackendHashSeq(ps, i) ==
  IF i > Len(ps) THEN 0
  ELSE ((i + 10) * BackendHash(ps[i]) + BackendHashSeq(ps, i + 1)) % HashMod

\* LoggingSort::hash: the hash of the wrapped sort
hash(h, a) == BackendHash(h[a].sort)

\* solver->make_sort(...) of the inner backend throws: a sort the engine
\* does not build (a function sort or a sort constructor among the
\* parameters, an array without index or element, a function without domain)
BackendRejectsSort(k, ps) ==
  \/ \E i \in 1..Len(ps) : ps[i].kind \in {"FUNCTION", "UNINTERPRETED_CONS"}
  \/ (k = "ARRAY" /\ Len(ps) # 2)
  \/ (k = "FUNCTION" /\ Len(ps) < 2)

\* solver->make_sort(...) of the inner backend: the engine's sort
BackendMakeSort(k, w, ps) == MkSort(k, w, ps)

SortIds == 1..Len(sortheap)

WrappedOf(ss) == [i \in 1..Len(ss) |-> sortheap[ss[i]].sort]

SortCall(c, a, n, ar, r, e) ==
  [call |-> c, args |-> a, name |-> n, arity |-> ar, ret |-> r, err |-> e]

\* the inner backend threw: no LoggingSort is made
SortThrows(c) ==
  /\ slast' = SortCall(c, <<>>, "", 0, 0, "BackendFailure")
  /\ UNCHANGED sortheap

\* return of a new LoggingSort object from the call c with the sorts a, the
\* name n and the arity ar
NewSort(obj, c, a, n, ar) ==
  /\ sortheap' = Append(sortheap, obj)
  /\ slast' = SortCall(c, a, n, ar, Len(sortheap) + 1, "")

\* make_logging_sort(sk, sort, ...) after solver->make_sort(sk, ...)
make_sort_of(c, sk, size, ss) ==
  /\ Len(sortheap) < MaxSorts
  /\ IF BackendRejectsSort(sk, WrappedOf(ss)) THEN SortThrows(c)
     ELSE LET sort == BackendMakeSort(sk, size, WrappedOf(ss))
          IN NewSort(LoggingSort(sk, size, ss, "", 0, sort), c, ss, "", 0)

\* make_sort(sk)
make_sort_kind ==
  /\ \E sk \in {"BOOL", "INT", "REAL"} : make_sort_of("make_sort", sk, 0, <<>>)
  /\ UNCHANGED nonsortvars

\* the widths the caller asks for
Widths == {4}

\* make_sort(sk, size)
make_sort_size ==
  /\ \E size \in Widths : make_sort_of("make_sort", "BV", size, <<>>)
  /\ UNCHANGED nonsortvars

\* make_sort(sk, sort1)
make_sort_1 ==
  /\ \E sk \in {"ARRAY", "FUNCTION"}, sort1 \in SortIds :
       make_sort_of("make_sort", sk, 0, <<sort1>>)
  /\ UNCHANGED nonsortvars

\* make_sort(sk, sort1, sort2)
make_sort_2 ==
  /\ \E sk \in {"ARRAY", "FUNCTION"}, sort1 \in SortIds, sort2 \in SortIds :
       make_sort_of("make_sort", sk, 0, <<sort1, sort2>>)
  /\ UNCHANGED nonsortvars

\* make_sort(sk, sort1, sort2, sort3)
make_sort_3 ==
  /\ \E sk \in {"FUNCTION"}, sort1 \in SortIds, sort2 \in SortIds,
        sort3 \in SortIds :
       make_sort_of("make_sort", sk, 0, <<sort1, sort2, sort3>>)
  /\ UNCHANGED nonsortvars

\* make_sort(sk, sorts)
make_sort_vec ==
  /\ \E sk \in {"FUNCTION"}, n \in 1..MaxVec :
       \E ss \in [1..n -> SortIds] : make_sort_of("make_sort", sk, 0, ss)
  /\ UNCHANGED nonsortvars

\* AbsSort::get_arity and get_uninterpreted_param_sorts of a LoggingSort
get_sort_arity(h, a) == h[a].arity
get_uninterpreted_param_sorts(h, a) == h[a].params

\* make_uninterpreted_logging_sort(wrapped, name, arity): an uninterpreted
\* sort for arity 0, a sort constructor for a positive arity
USortKind(arity) ==
  IF arity = 0 THEN "UNINTERPRETED" ELSE "UNINTERPRETED_CONS"

make_uninterpreted_logging_sort(wrapped, name, arity) ==
  LoggingSort(USortKind(arity), 0, <<>>, name, arity, wrapped)

\* the names and arities the caller declares
SortNames == {"S"}
Arities == {0, 2}

\* what solver->make_sort(name, arity) of the inner backend does: not every
\* engine supports uninterpreted sorts or sort constructors
BackendDeclareSort == {"sort", "throws"}

\* make_sort(name, arity) with the arity not handed to the logging sort
make_sort_name_arity_dropped ==
  /\ Len(sortheap) < MaxSorts
  /\ \E name \in SortNames, arity \in Arities :
       \E r \in BackendDeclareSort :
         IF r = "throws" THEN SortThrows("make_sort_name")
         ELSE LET wrapped_sort ==
                    BackendUSort(USortKind(arity), name, arity, <<>>)
              IN NewSort(make_uninterpreted_logging_sort(wrapped_sort, name, 0),
                         "make_sort_name", <<>>, name, arity)
  /\ UNCHANGED nonsortvars

\* make_sort(name, arity)
make_sort_name ==
  /\ Len(sortheap) < MaxSorts
  /\ \E name \in SortNames, arity \in Arities :
       \E r \in BackendDeclareSort :
         IF r = "throws" THEN SortThrows("make_sort_name")
         ELSE LET wrapped_sort ==
                    BackendUSort(USortKind(arity), name, arity, <<>>)
              IN NewSort(make_uninterpreted_logging_sort(wrapped_sort, name,
                                                         arity),
                         "make_sort_name", <<>>, name, arity)
  /\ UNCHANGED nonsortvars

\* make_sort(sort_con, sorts) with the parameter sorts stored back to front
make_sort_apply_reversed ==
  /\ Len(sortheap) < MaxSorts
  /\ \E sort_con \in SortIds, n \in 1..MaxVec :
       \E ss \in [1..n -> SortIds] :
         IF \/ sortheap[sort_con].kind # "UNINTERPRETED_CONS"
            \/ n # sortheap[sort_con].arity
            \/ BackendRejectsSort("UNINTERPRETED", WrappedOf(ss))
         THEN SortThrows("make_sort_apply")
         ELSE LET rev == [i \in 1..n |-> ss[n + 1 - i]]
                  wrapped_sort ==
                    BackendUSort("UNINTERPRETED", sortheap[sort_con].name, 0,
                                 WrappedOf(rev))
              IN NewSort(LoggingSort("UNINTERPRETED", 0, rev,
                                     sortheap[sort_con].name, 0, wrapped_sort),
                         "make_sort_apply", ss, sortheap[sort_con].name, n)
  /\ UNCHANGED nonsortvars

\* make_sort(sort_con, sorts): a sort constructor of arity n applied to n
\* sorts
make_sort_apply ==
  /\ Len(sortheap) < MaxSorts
  /\ \E sort_con \in SortIds, n \in 1..MaxVec :
       \E ss \in [1..n -> SortIds] :
         IF \/ sortheap[sort_con].kind # "UNINTERPRETED_CONS"
            \/ n # sortheap[sort_con].arity
            \/ BackendRejectsSort("UNINTERPRETED", WrappedOf(ss))
         THEN SortThrows("make_sort_apply")
         ELSE LET wrapped_sort ==
                    BackendUSort("UNINTERPRETED", sortheap[sort_con].name, 0,
                                 WrappedOf(ss))
              IN NewSort(LoggingSort("UNINTERPRETED", 0, ss,
                                     sortheap[sort_con].name, 0, wrapped_sort),
                         "make_sort_apply", ss, sortheap[sort_con].name, n)
  /\ UNCHANGED nonsortvars

(***************************************************************************)
(* TermTranslator                                                          *)
(***************************************************************************)
\* transfer_sort(sort): the sort rebuilt with the destination's make_sort
RECURSIVE transfer_sort(_)
transfer_sort(s) ==
  MkSort(get_sort_kind(s), s.width,
         [i \in 1..Len(s.params) |-> transfer_sort(s.params[i])])

\* the symbols declared in the destination solver
DstDeclared(dst) == {dst[i].name : i \in 1..Len(dst)} \ {""}

\* the applications the destination solver accepts
DstWellSorted(po, sorts) ==
  CASE po = "Ite" -> sorts[1] = BoolSort /\ sorts[2] = sorts[3]
    [] po = "BVAdd" -> eq_bv_sorts(sorts)
    [] po = "Equal" -> equal_sorts(sorts)
    [] OTHER -> FALSE

\* a make_term or make_symbol call of the destination solver that returns:
\* the new term is the last of dst
dst_new(st, term) == [st EXCEPT !.dst = Append(@, term)]

\* step 1 with the cache consulted for symbols only
in_cache_symbols_only(c, t) == c[t] # 0 /\ SrcTerms[t].name # ""

\* step 1 with the cache not consulted for symbols
in_cache_but_symbols(c, t) == c[t] # 0 /\ SrcTerms[t].name = ""

\* step 1: t is in the cache
in_cache(c, t) == c[t] # 0

\* step 6: the result is inserted into the cache
insert_cache(c, t, d) == [c EXCEPT ![t] = d]

\* the term just made in the destination becomes the translation of t
cache_last(st, t) ==
  [st EXCEPT !.cache = insert_cache(st.cache, t, Len(st.dst))]

\* cast_term(term, Bool) of a BV(1) term that is not a value:
\* Equal(term, bv1_one), two make_term calls of the destination
cast_term_to_bool(st, d) ==
  LET one == dst_new(st, LoggingTerm(NullOp, BVSort(1), <<>>, "", "#b1"))
      eq == dst_new(one, LoggingTerm("Equal", BoolSort,
                                     <<d, Len(one.dst)>>, "", ""))
  IN [eq EXCEPT !.n_make_term = @ + 2, !.n_cast = @ + 1]

\* cast_op(op, terms): the destination rejected op over terms.  An Ite whose
\* condition is a BV(1) term gets the condition cast to Bool; no other cast
\* is needed for the terms transferred here
cast_op(po, ch, st) ==
  IF /\ po = "Ite"
     /\ st.dst[ch[1]].sort = BVSort(1)
     /\ st.dst[ch[2]].sort = st.dst[ch[3]].sort
  THEN LET cond == cast_term_to_bool(st, ch[1])
           made == dst_new(cond,
                           LoggingTerm(po, st.dst[ch[2]].sort,
                                       <<Len(cond.dst), ch[2], ch[3]>>,
                                       "", ""))
       IN [made EXCEPT !.n_make_term = @ + 1]
  ELSE [st EXCEPT !.err = "NotImplemented"]

\* transfer_term(term), post-order over the source term; st is the state of
\* the translator and of the destination during the call.  n_make_term
\* counts the make_term calls the destination answers with a term: an
\* application the destination finds not well-sorted goes to cast_op
RECURSIVE transfer(_, _)
RECURSIVE transfer_children(_, _, _)
transfer_children(ch, i, st) ==
  IF i > Len(ch) \/ st.err # "" THEN st
  ELSE transfer_children(ch, i + 1, transfer(ch[i], st))

transfer(t, st) ==
  LET src == SrcTerms[t] IN
  IF st.err # "" THEN st
  ELSE IF in_cache(st.cache, t) THEN st
  ELSE IF src.name # ""
  THEN \* step 2: a symbol is declared in the destination
       LET called == [st EXCEPT !.n_make_symbol = @ + 1,
                                !.symcalls[t] = @ + 1]
       IN IF src.name \in DstDeclared(st.dst)
          THEN [called EXCEPT !.err = "BackendFailure"]
          ELSE cache_last(dst_new(called,
                                  LoggingTerm(NullOp, transfer_sort(src.sort),
                                              <<>>, src.name, "")), t)
  ELSE IF src.value # ""
  THEN \* step 3: a value is rebuilt from its printed form
       LET called == [st EXCEPT !.n_make_term = @ + 1]
       IN cache_last(dst_new(called,
                             LoggingTerm(NullOp, transfer_sort(src.sort),
                                         <<>>, "", src.value)), t)
  ELSE \* step 5: the children, then make_term(op, translated children)
       LET st1 == transfer_children(src.children, 1, st) IN
       IF st1.err # "" THEN st1
       ELSE LET cached_children ==
                  [i \in 1..Len(src.children) |-> st1.cache[src.children[i]]]
                sorts == [i \in 1..Len(cached_children) |->
                            st1.dst[cached_children[i]].sort]
                called == [st1 EXCEPT !.n_make_term = @ + 1]
            IN IF DstWellSorted(src.op, sorts)
               THEN cache_last(dst_new(called,
                                       LoggingTerm(src.op,
                                                   compute_sort(src.op, sorts),
                                                   cached_children, "", "")),
                               t)
               ELSE LET casted == cast_op(src.op, cached_children, st1)
                    IN IF casted.err # "" THEN casted
                       ELSE cache_last(casted, t)

\* transfer_term(term)
transfer_term ==
  /\ \E t \in TransferIds :
       LET r == transfer(t, [cache |-> cache, dst |-> dst_terms,
                             symcalls |-> symcalls, err |-> "",
                             n_make_term |-> 0, n_make_symbol |-> 0,
                             n_cast |-> 0])
       IN /\ cache' = r.cache
          /\ dst_terms' = r.dst
          /\ symcalls' = r.symcalls
          /\ returned' = IF r.err = "" /\ returned[t] = 0
                         THEN [returned EXCEPT ![t] = r.cache[t]]
                         ELSE returned
          /\ tlast' = [call |-> "transfer_term", arg |-> t,
                       ret |-> IF r.err = "" THEN r.cache[t] ELSE 0,
                       err |-> r.err, n_make_term |-> r.n_make_term,
                       n_make_symbol |-> r.n_make_symbol,
                       n_cast |-> r.n_cast,
                       sk |-> "NONE", translated |-> 0]
  /\ UNCHANGED prepop
  /\ UNCHANGED nonttvars

\* the sorts a symbol of the source may have in the destination
DstSymbolSorts(s) == IF s = BoolSort THEN {BoolSort, BVSort(1)} ELSE {s}

\* get_cache()[sym] = dst_sym: the caller maps a source symbol to the symbol
\* of that name it has declared in the destination
populate_cache ==
  /\ \E t \in SrcSymbols \cap TransferIds :
     \E ds \in DstSymbolSorts(SrcTerms[t].sort) :
       /\ cache[t] = 0
       /\ SrcTerms[t].name \notin DstDeclared(dst_terms)
       /\ dst_terms' = Append(dst_terms,
                              LoggingTerm(NullOp, ds, <<>>,
                                          SrcTerms[t].name, ""))
       /\ cache' = [cache EXCEPT ![t] = Len(dst_terms) + 1]
       /\ prepop' = prepop \cup {t}
       /\ tlast' = [NoTTCall EXCEPT !.call = "get_cache", !.arg = t]
  /\ UNCHANGED <<symcalls, returned>>
  /\ UNCHANGED nonttvars

\* the SortKinds requested of transfer_term(term, sk)
CastKinds == {"BOOL", "BV", "INT", "REAL", "ARRAY"}

\* the terms given to transfer_term(term, sk): the symbols and values of
\* sort Bool, BV(4), Int, Real and Array
CastIds == {t \in SrcIds : SrcTerms[t].op = NullOp /\ SrcTerms[t].name # "x"}

\* the sort transfer_term(term, sk) asks cast_term for: the kinds with one
\* sort, and BV(1) for BV
cast_sort(sk) ==
  CASE sk = "BOOL" -> BoolSort
    [] sk = "BV" -> BVSort(1)
    [] sk = "INT" -> IntSort
    [] sk = "REAL" -> RealSort
    [] OTHER -> NoSort

\* the conversions with a BV of any width taken for a Bool
cast_kind_any_width(cur, sort) ==
  CASE cur = BoolSort /\ sort = BVSort(1) -> "Bool_to_BV1"
    [] get_sort_kind(cur) = "BV" /\ sort = BoolSort -> "BV1_to_Bool"
    [] cur = IntSort /\ sort = RealSort -> "To_Real"
    [] cur = RealSort /\ sort = IntSort -> "To_Int"
    [] OTHER -> "NotImplemented"

\* the conversions with To_Real and To_Int exchanged
cast_kind_swapped(cur, sort) ==
  CASE cur = BoolSort /\ sort = BVSort(1) -> "Bool_to_BV1"
    [] cur = BVSort(1) /\ sort = BoolSort -> "BV1_to_Bool"
    [] cur = IntSort /\ sort = RealSort -> "To_Int"
    [] cur = RealSort /\ sort = IntSort -> "To_Real"
    [] OTHER -> "NotImplemented"

\* the conversions cast_term supports: Bool <-> BV(1) and Int <-> Real
cast_kind(cur, sort) ==
  CASE cur = BoolSort /\ sort = BVSort(1) -> "Bool_to_BV1"
    [] cur = BVSort(1) /\ sort = BoolSort -> "BV1_to_Bool"
    [] cur = IntSort /\ sort = RealSort -> "To_Real"
    [] cur = RealSort /\ sort = IntSort -> "To_Int"
    [] OTHER -> "NotImplemented"

\* one make_term call of the destination solver during a cast
cast_make(st, term) == [dst_new(st, term) EXCEPT !.n_make_term = @ + 1]

\* cast_value(val, sort): true <-> #b1, false <-> #b0
cast_value(st, d, sort) ==
  LET v == st.dst[d].value
      w == IF sort = BoolSort
           THEN (IF v = "#b1" THEN "true" ELSE "false")
           ELSE (IF v = "true" THEN "#b1" ELSE "#b0")
  IN cast_make(st, LoggingTerm(NullOp, sort, <<>>, "", w))

\* cast_term(term, sort); the result is the term d itself or the last term
\* made in the destination
cast_term(st, d, sort) ==
  LET cur == st.dst[d].sort
      k == cast_kind(cur, sort)
      counted == [st EXCEPT !.n_cast = @ + 1]
  IN
  IF cur = sort THEN [st |-> st, ret |-> d]
  ELSE IF k = "NotImplemented"
  THEN [st |-> [st EXCEPT !.err = "NotImplemented"], ret |-> 0]
  ELSE LET made ==
         IF k \in {"Bool_to_BV1", "BV1_to_Bool"} /\ st.dst[d].value # ""
         THEN cast_value(counted, d, sort)
         ELSE IF k = "Bool_to_BV1"
         THEN \* Ite(b, bv1_one, bv1_zero)
              LET one == cast_make(counted, LoggingTerm(NullOp, BVSort(1),
                                                        <<>>, "", "#b1"))
                  zero == cast_make(one, LoggingTerm(NullOp, BVSort(1),
                                                     <<>>, "", "#b0"))
              IN cast_make(zero,
                           LoggingTerm("Ite", BVSort(1),
                                       <<d, Len(one.dst), Len(zero.dst)>>,
                                       "", ""))
         ELSE IF k = "BV1_to_Bool"
         THEN \* Equal(bv, bv1_one)
              cast_term_to_bool(st, d)
         ELSE IF k = "To_Real"
         THEN cast_make(counted,
                        LoggingTerm("To_Real", RealSort, <<d>>, "", ""))
         ELSE cast_make(counted,
                        LoggingTerm("To_Int", IntSort, <<d>>, "", ""))
       IN [st |-> made, ret |-> Len(made.dst)]

\* transfer_term(term, sk): the term is transferred, then cast when the kind
\* of its sort is not sk
transfer_term_sk ==
  /\ Len(dst_terms) < MaxDst
  /\ \E t \in CastIds : \E sk \in CastKinds :
       LET r == transfer(t, [cache |-> cache, dst |-> dst_terms,
                             symcalls |-> symcalls, err |-> "",
                             n_make_term |-> 0, n_make_symbol |-> 0,
                             n_cast |-> 0])
           d == r.cache[t]
           c == IF r.err # "" THEN [st |-> r, ret |-> 0]
                ELSE IF get_sort_kind(r.dst[d].sort) = sk
                THEN [st |-> r, ret |-> d]
                ELSE IF cast_sort(sk) = NoSort
                THEN [st |-> [r EXCEPT !.err = "NotImplemented"], ret |-> 0]
                ELSE cast_term(r, d, cast_sort(sk))
       IN /\ cache' = c.st.cache
          /\ dst_terms' = c.st.dst
          /\ symcalls' = c.st.symcalls
          /\ tlast' = [call |-> "transfer_term_sk", arg |-> t,
                       ret |-> c.ret, err |-> c.st.err,
                       n_make_term |-> c.st.n_make_term,
                       n_make_symbol |-> c.st.n_make_symbol,
                       n_cast |-> c.st.n_cast,
                       sk |-> sk,
                       translated |-> IF r.err = "" THEN d ELSE 0]
  /\ UNCHANGED <<prepop, returned>>
  /\ UNCHANGED nonttvars

CSIdle ==
  /\ cs_pc = "idle"
  /\ cs_op = NullOp
  /\ cs_sorts = <<>>
  /\ cs_ret = "none"
  /\ cs_consulted = FALSE

\* a LoggingSolver over an engine with the SMT-LIB sorts
Init ==
  LSInit /\ backend = BackendInit(FALSE) /\ CSIdle /\ SortIdle /\ TTInit

\* a LoggingSolver over an engine that represents Bool as BV(1)
InitAlias ==
  LSInit /\ backend = BackendInit(TRUE) /\ CSIdle /\ SortIdle /\ TTInit

\* term construction and reset
Next ==
  \/ (make_term_bool /\ UNCHANGED nonlsvars)
  \/ (make_symbol(TermSymbols) /\ UNCHANGED nonlsvars)
  \/ (make_term_1 /\ UNCHANGED nonlsvars)
  \/ (make_term_2 /\ UNCHANGED nonlsvars)
  \/ (make_term_3 /\ UNCHANGED nonlsvars)
  \/ (make_term_vec /\ UNCHANGED nonlsvars)
  \/ (reset /\ UNCHANGED nonlsvars)

Spec == Init /\ [][Next]_vars

SpecAlias == InitAlias /\ [][Next]_vars

\* a translator given the terms of the source solver
NextTT ==
  \/ transfer_term
  \/ populate_cache

SpecTT == Init /\ [][NextTT]_vars

\* a translator asked for terms of a given SortKind
NextCast ==
  \/ transfer_term_sk
  \/ populate_cache

SpecCast == Init /\ [][NextCast]_vars

\* uninterpreted sorts and sort constructors
NextUSort ==
  \/ make_sort_kind
  \/ make_sort_size
  \/ make_sort_name
  \/ make_sort_apply

SpecUSort == Init /\ [][NextUSort]_vars

\* the sorts made: BOOL, INT, REAL, BV, ARRAY and FUNCTION
NextSort ==
  \/ make_sort_kind
  \/ make_sort_size
  \/ make_sort_1
  \/ make_sort_2
  \/ make_sort_3
  \/ make_sort_vec

SpecSort == Init /\ [][NextSort]_vars

\* the operators given to make_term(op, t): the unary ones, an operator
\* sort inference has no rule for, and the null operator Op()
AnyUnaryOps == UnaryOps \cup {UnknownOp, NullOp}

\* constant arrays over the values and symbols of a few constructing calls
NextArr ==
  \/ (make_term_bool /\ UNCHANGED nonlsvars)
  \/ (make_symbol(TermSymbols) /\ UNCHANGED nonlsvars)
  \/ (make_term_const_array /\ UNCHANGED nonlsvars)
  \/ (make_term_unary(AnyUnaryOps) /\ UNCHANGED nonlsvars)
  \/ (make_term_nary(0..MaxVec) /\ UNCHANGED nonlsvars)
  \/ (reset /\ UNCHANGED nonlsvars)

SpecArr == Init /\ [][NextArr]_vars

\* model queries after check_sat, over the terms of a few constructing calls
NextModel ==
  \/ (make_symbol(ModelSymbols) /\ UNCHANGED nonlsvars)
  \/ (make_term_bool /\ UNCHANGED nonlsvars)
  \/ (make_term_1 /\ UNCHANGED nonlsvars)
  \/ (check_sat /\ UNCHANGED nonlsvars)
  \/ (get_value /\ UNCHANGED nonlsvars)
  \/ (get_array_values /\ UNCHANGED nonlsvars)
  \/ (reset /\ UNCHANGED nonlsvars)

SpecModel == Init /\ [][NextModel]_vars

\* the operations dispatched to the backend, over the terms of a few
\* constructing calls
NextFwd ==
  \/ (make_term_bool /\ UNCHANGED nonlsvars)
  \/ (make_symbol(TermSymbols) /\ UNCHANGED nonlsvars)
  \/ (make_term_1 /\ UNCHANGED nonlsvars)
  \/ (set_opt /\ UNCHANGED nonlsvars)
  \/ (set_logic /\ UNCHANGED nonlsvars)
  \/ (assert_formula /\ UNCHANGED nonlsvars)
  \/ (check_sat /\ UNCHANGED nonlsvars)
  \/ (check_sat_assuming /\ UNCHANGED nonlsvars)
  \/ (push /\ UNCHANGED nonlsvars)
  \/ (pop /\ UNCHANGED nonlsvars)
  \/ (reset_assertions /\ UNCHANGED nonlsvars)

SpecFwd == Init /\ [][NextFwd]_vars

(***************************************************************************)
(* Properties of the LoggingSolver                                         *)
(***************************************************************************)
Constructing == {"make_term", "make_term_bool", "make_symbol"}

NonConstructing == {"reset_assertions", "assert_formula", "check_sat",
                    "check_sat_assuming", "push", "pop", "set_opt",
                    "set_logic"}

\* the entries of the table a call make_term(op, children) built earlier
BuiltBy(po, ch) ==
  {id \in hashtable : terms[id].op = po /\ terms[id].children = ch}

\* C1: when make_term(op, children) returns and the same call has already
\* built an entry of the hash table (no reset() since), the call returns
\* that very entry and leaves the hash table as it was.
C1_HashConsIdempotent ==
  [][(/\ last'.call = "make_term"
      /\ last'.err = ""
      /\ BuiltBy(last'.op, last'.args) # {})
       => /\ BuiltBy(last'.op, last'.args) = {last'.ret[1]}
          /\ hashtable' = hashtable
          /\ Cardinality(hashtable') = Cardinality(hashtable)]_vars

\* a second make_term(op, children) has returned a term built before
C1_Witness ==
  /\ last.call = "make_term"
  /\ last.err = ""
  /\ last.ret[1] < Len(terms)
  /\ last.ret[1] \in hashtable
  /\ terms[last.ret[1]].children = last.args

\* C2: every logging term handed to the caller (and not made stale by a
\* reset) is the canonical entry of the hash table, and no two distinct
\* such terms are structurally equal.
C2_HandedTermsCanonical ==
  /\ \A id \in Usable : id \in hashtable
  /\ \A a, b \in Usable : a # b => ~TermEq(terms[a], terms[b])

\* C3: every applied term make_term has returned passes check_sortedness
\* and carries the sort compute_sort gives for its operator and children.
C3_SurfacedTermsWellSorted ==
  \A id \in Usable :
    terms[id].op # NullOp =>
      /\ check_sortedness(terms[id].op, SortsOf(terms[id].children)).rets
           = {"true"}
      /\ terms[id].sort
           = compute_sort(terms[id].op, SortsOf(terms[id].children))

\* C4: after reset() the hash table is empty and the backend is reset; no
\* entry from before a reset survives it, so a term rebuilt after the reset
\* is a new entry of the table.
C4_ResetClearsHashTable ==
  /\ last.call = "reset" =>
       (hashtable = {} /\ backend = BackendInit(backend.alias))
  /\ hashtable \cap stale = {}
  /\ (last.call \in Constructing /\ last.err = "") =>
       last.ret[1] \in hashtable \ stale

\* a term built before a reset has been rebuilt after it
C4_Witness ==
  /\ last.call \in Constructing
  /\ last.err = ""
  /\ last.ret[1] \in hashtable
  /\ \E s \in stale : TermEq(terms[s], terms[last.ret[1]])

\* C5: the non-constructing operations leave the hash table and the terms
\* in it unchanged, and the terms the caller holds stay usable.
C5_ForwardedKeepHashTable ==
  [][last'.call \in NonConstructing =>
       /\ hashtable' = hashtable
       /\ terms' = terms
       /\ stale' = stale]_vars

\* reset_assertions has run on a solver with declared symbols in the table
C5_Witness ==
  /\ last.call = "reset_assertions"
  /\ hashtable # {}
  /\ backend.declared # {}
  /\ \E id \in hashtable : terms[id].name \in backend.declared

(***************************************************************************)
(* Properties of check_sortedness (specification SpecCS)                   *)
(***************************************************************************)
CSDone == cs_pc = "done"

InArity == /\ Len(cs_sorts) >= get_arity(cs_op)[1]
           /\ Len(cs_sorts) <= get_arity(cs_op)[2]

\* C6: for Equal and Distinct with an argument count inside the arity range,
\* check_sortedness returns true exactly when all arguments share one sort,
\* whatever that sort is.
C6_EqualDistinctShareOneSort ==
  (CSDone /\ cs_op \in {"Equal", "Distinct"} /\ InArity)
    => /\ cs_ret \in {"true", "false"}
       /\ (cs_ret = "true") <=> equal_sorts(cs_sorts)

\* the arguments of Apply are a function followed by terms of its domain sorts
ApplyWellSorted(sorts) ==
  /\ Len(sorts) >= 1
  /\ get_sort_kind(sorts[1]) = "FUNCTION"
  /\ Tail(sorts) = get_domain_sorts(sorts[1])

\* C7: for Apply, check_sortedness returns true exactly when the first
\* argument has a function sort with domain d1..dn and the remaining
\* arguments are exactly n terms of the sorts d1..dn in order.
C7_ApplyMatchesDomain ==
  (CSDone /\ cs_op = "Apply")
    => /\ cs_ret \in {"true", "false"}
       /\ (cs_ret = "true") <=> ApplyWellSorted(cs_sorts)

\* C8: for Lt, Le, Gt and Ge with two arguments, check_sortedness returns
\* true exactly when both arguments are Int or both are Real.
C8_ComparisonsShareArithmeticSort ==
  (CSDone /\ cs_op \in {"Lt", "Le", "Gt", "Ge"} /\ Len(cs_sorts) = 2)
    => /\ cs_ret \in {"true", "false"}
       /\ (cs_ret = "true") <=>
            (\/ (cs_sorts[1] = IntSort /\ cs_sorts[2] = IntSort)
             \/ (cs_sorts[1] = RealSort /\ cs_sorts[2] = RealSort))

\* C9 as stated: check_sortedness for an operator without a dispatch entry
\* fails with NotImplemented for every argument list, whatever its length.
C9_UnknownOpAlwaysNotImplemented ==
  (CSDone /\ sort_check_dispatch(cs_op) = "none") => cs_ret = "NotImplemented"

\* C9 amended: check_sortedness for an operator without a dispatch entry
\* fails with NotImplemented when the argument count lies inside the
\* operator's arity range, and returns false when it lies outside.
C9_UnknownOpNotImplementedInArity ==
  (CSDone /\ sort_check_dispatch(cs_op) = "none")
    => /\ InArity => cs_ret = "NotImplemented"
       /\ ~InArity => cs_ret = "false"

C9_Witness ==
  /\ CSDone
  /\ cs_op = UnknownOp
  /\ InArity
  /\ cs_ret = "NotImplemented"

\* C10: check_sortedness returns false whenever the argument count is below
\* min_arity or above max_arity, whatever the sorts, and the per-operator
\* predicate is called only when the count lies inside the range.
C10_ArityCheckedFirst ==
  CSDone => /\ ~InArity => (cs_ret = "false" /\ ~cs_consulted)
            /\ cs_consulted => InArity

C10_Witness ==
  /\ CSDone
  /\ Len(cs_sorts) > get_arity(cs_op)[2]
  /\ sort_check_dispatch(cs_op) # "none"
  /\ cs_ret = "false"
  /\ ~cs_consulted

\* C11: for Ite with three arguments, check_sortedness returns true exactly
\* when the first argument's sort kind is BOOL and the second and third
\* arguments have equal sorts.
C11_IteBoolConditionEqualBranches ==
  (CSDone /\ cs_op = "Ite" /\ Len(cs_sorts) = 3)
    => /\ cs_ret \in {"true", "false"}
       /\ (cs_ret = "true") <=>
            (get_sort_kind(cs_sorts[1]) = "BOOL" /\ cs_sorts[2] = cs_sorts[3])

\* Ite(b, x: BV(8), y: BV(8)) has been found well-sorted
C11_Witness ==
  /\ CSDone
  /\ cs_op = "Ite"
  /\ cs_sorts = <<BoolSort, BV8, BV8>>
  /\ cs_ret = "true"

\* C12: for Store with arguments (a, i, v), check_sortedness returns true
\* exactly when a has an Array(I, E) sort, i has sort I and v has sort E,
\* and false otherwise.
C12_StoreMatchesArraySort ==
  (CSDone /\ cs_op = "Store" /\ Len(cs_sorts) = 3)
    => /\ cs_ret \in {"true", "false"}
       /\ (cs_ret = "true") <=>
            (/\ get_sort_kind(cs_sorts[1]) = "ARRAY"
             /\ cs_sorts[2] = get_indexsort(cs_sorts[1])
             /\ cs_sorts[3] = get_elemsort(cs_sorts[1]))

\* Store(a: Array(BV(4), BV(8)), i: BV(4), v: BV(8)) has been found
\* well-sorted
C12_Witness ==
  /\ CSDone
  /\ cs_op = "Store"
  /\ cs_sorts = <<Arr48, BV4, BV8>>
  /\ cs_ret = "true"

(***************************************************************************)
(* Properties of the model queries (specification SpecModel)               *)
(***************************************************************************)
\* C13: when the backend reports a constant base that is not an array,
\* after get_array_values(arr, out_const_base) has returned the caller's
\* out_const_base holds a logging term of the array's element sort with
\* empty op and no children.
C13_CallerReceivesConstBase ==
  (last.call = "get_array_values" /\ last.err = "" /\ last.base = "elem")
    => /\ caller_base \in 1..Len(terms)
       /\ terms[caller_base].sort = get_elemsort(terms[last.args[1]].sort)
       /\ terms[caller_base].op = NullOp
       /\ terms[caller_base].children = <<>>

\* C14: get_array_values fails with NotImplemented and returns no
\* assignment map whenever the constant base the backend reports is itself
\* an array (the base of a multidimensional array).
C14_MultidimensionalBaseNotImplemented ==
  (last.call = "get_array_values" /\ last.base = "array")
    => /\ last.err = "NotImplemented"
       /\ last.ret = <<>>

\* get_array_values on an array of arrays, the backend reporting a base
C14_Witness ==
  /\ last.call = "get_array_values"
  /\ last.base = "array"
  /\ get_sort_kind(get_elemsort(terms[last.args[1]].sort)) = "ARRAY"
  /\ last.err = "NotImplemented"

(***************************************************************************)
(* Properties of the constant-array builder (specification SpecArr)        *)
(***************************************************************************)
\* C15: make_term(val, sort) called with a sort whose kind is not ARRAY
\* fails with IncorrectUsage, returns no term and leaves the term hash
\* table unchanged.
C15_NonArraySortIncorrectUsage ==
  [][(/\ last'.call = "make_term_const_array"
      /\ get_sort_kind(last'.sort) # "ARRAY")
       => /\ last'.err = "IncorrectUsage"
          /\ last'.ret = <<>>
          /\ hashtable' = hashtable]_vars

(***************************************************************************)
(* Properties of the sorts (specifications SpecSort and SpecUSort)         *)
(***************************************************************************)
\* the structure of a LoggingSort: its kind, its width and the structures of
\* its parameter sorts
RECURSIVE Structure(_)
Structure(a) ==
  MkSort(sortheap[a].kind, sortheap[a].width,
         [i \in 1..Len(sortheap[a].params) |->
            Structure(sortheap[a].params[i])])

\* two sorts made by make_sort calls with equal parameters: the same kind,
\* the same width and parameter sorts of the same structure
EqualParameters(a, b) ==
  /\ sortheap[a].kind = sortheap[b].kind
  /\ sortheap[a].width = sortheap[b].width
  /\ Len(sortheap[a].params) = Len(sortheap[b].params)
  /\ \A i \in 1..Len(sortheap[a].params) :
       Structure(sortheap[a].params[i]) = Structure(sortheap[b].params[i])

\* C16: two make_sort calls with equal parameters (kinds BOOL, BV, INT,
\* REAL, FUNCTION, ARRAY), in any order and with any other make_sort calls
\* in between, return sorts that compare equal and have equal hash(), also
\* when the parameter sorts are equal but distinct objects.
C16_EqualParametersEqualSorts ==
  \A a, b \in SortIds :
    EqualParameters(a, b) =>
      (compare(sortheap, a, b) /\ hash(sortheap, a) = hash(sortheap, b))

\* two array sorts made from equal parameter sorts that are distinct objects
C16_Witness ==
  \E a, b \in SortIds :
    /\ a # b
    /\ sortheap[a].kind = "ARRAY"
    /\ EqualParameters(a, b)
    /\ sortheap[a].params # sortheap[b].params

\* C17: applying an uninterpreted sort constructor of arity n to n sorts
\* yields a sort whose arity is 0 and whose get_uninterpreted_param_sorts()
\* is exactly the n supplied sorts in the supplied order.
C17_AppliedConsKeepsParams ==
  (slast.call = "make_sort_apply" /\ slast.err = "")
    => LET params == get_uninterpreted_param_sorts(sortheap, slast.ret) IN
       /\ get_sort_arity(sortheap, slast.ret) = 0
       /\ Len(params) = slast.arity
       /\ Len(params) = Len(slast.args)
       /\ \A i \in 1..Len(params) : compare(sortheap, params[i], slast.args[i])

\* a constructor of arity 2 has been applied to two sorts of different kinds
C17_Witness ==
  /\ slast.call = "make_sort_apply"
  /\ slast.err = ""
  /\ slast.arity = 2
  /\ sortheap[slast.args[1]].kind = "BV"
  /\ sortheap[slast.args[2]].kind = "BOOL"

\* C18: make_sort(name, arity) returns a sort whose get_arity() equals arity
\* and whose sort kind is UNINTERPRETED when arity is 0 and
\* UNINTERPRETED_CONS when arity is positive.
C18_DeclaredSortArityAndKind ==
  (slast.call = "make_sort_name" /\ slast.err = "")
    => /\ get_sort_arity(sortheap, slast.ret) = slast.arity
       /\ slast.arity = 0 => sortheap[slast.ret].kind = "UNINTERPRETED"
       /\ slast.arity > 0 => sortheap[slast.ret].kind = "UNINTERPRETED_CONS"

\* a sort constructor of positive arity has been declared
C18_Witness ==
  /\ slast.call = "make_sort_name"
  /\ slast.err = ""
  /\ slast.arity > 0
  /\ sortheap[slast.ret].kind = "UNINTERPRETED_CONS"

(***************************************************************************)
(* Properties of the TermTranslator (specification SpecTT)                 *)
(***************************************************************************)
\* the distinct subterms of a source term
RECURSIVE Subterms(_)
Subterms(t) ==
  {t} \cup UNION {Subterms(SrcTerms[t].children[i]) :
                    i \in 1..Len(SrcTerms[t].children)}

\* a transfer_term(t) that returns after an earlier one returned gives the
\* same destination term and calls neither make_term nor make_symbol
SecondTransferCached ==
  (tlast'.call = "transfer_term" /\ tlast'.err = ""
   /\ returned[tlast'.arg] # 0)
    => /\ tlast'.ret = returned[tlast'.arg]
       /\ tlast'.n_make_term = 0
       /\ tlast'.n_make_symbol = 0

C20_SymbolsDeclaredOnce ==
  /\ \A t \in SrcSymbols :
       /\ symcalls[t] <= 1
       /\ t \in prepop => symcalls[t] = 0
  /\ tlast.err # "BackendFailure"

\* a term that uses one symbol twice and a symbol of the caller's has been
\* transferred
C20_Witness ==
  /\ tlast.call = "transfer_term"
  /\ tlast.err = ""
  /\ tlast.arg = 5
  /\ 1 \in prepop
  /\ symcalls[1] = 0
  /\ symcalls[2] = 1
  /\ tlast.n_make_symbol = 1

\* the conversions between sibling sorts: Bool <-> BV of width 1, Int <-> Real
SupportedConversion(cur, sk) ==
  \/ cur = BoolSort /\ sk = "BV"
  \/ cur = BVSort(1) /\ sk = "BOOL"
  \/ cur = IntSort /\ sk = "REAL"
  \/ cur = RealSort /\ sk = "INT"

\* transfer_term(term, sk) has translated the term
Translated ==
  tlast.call = "transfer_term_sk" /\ tlast.translated # 0

\* C21: transfer_term(term, sk) fails with NotImplemented whenever the kind of
\* the translated term's sort is not sk and the conversion is none of
\* Bool <-> BV(1) and Int <-> Real
C21_UnsupportedConversionNotImplemented ==
  (/\ Translated
   /\ get_sort_kind(dst_terms[tlast.translated].sort) # tlast.sk
   /\ ~SupportedConversion(dst_terms[tlast.translated].sort, tlast.sk))
    => tlast.err = "NotImplemented" /\ tlast.ret = 0

\* a BV(4) value was requested as BOOL and the call failed
C21_Witness ==
  /\ Translated
  /\ dst_terms[tlast.translated].sort = BV4
  /\ tlast.sk = "BOOL"
  /\ tlast.err = "NotImplemented"

\* C22: transfer_term(term, sk) returns the term transfer_term(term) returns
\* when the kind of its sort is sk, and for a supported conversion it returns
\* a destination term whose sort has kind sk
C22_SameKindOrCastToKind ==
  Translated =>
    LET cur == dst_terms[tlast.translated].sort IN
    /\ get_sort_kind(cur) = tlast.sk
         => /\ tlast.err = ""
            /\ tlast.ret = cache[tlast.arg]
            /\ tlast.n_cast = 0
    /\ (get_sort_kind(cur) # tlast.sk /\ SupportedConversion(cur, tlast.sk))
         => /\ tlast.err = ""
            /\ tlast.ret \in 1..Len(dst_terms)
            /\ tlast.ret # tlast.translated
            /\ get_sort_kind(dst_terms[tlast.ret].sort) = tlast.sk

\* the Bool symbol c was requested as BV and an Ite of sort BV(1) returned
C22_Witness ==
  /\ Translated
  /\ tlast.arg = 1
  /\ dst_terms[tlast.translated].sort = BoolSort
  /\ tlast.sk = "BV"
  /\ tlast.err = ""
  /\ dst_terms[tlast.ret].op = "Ite"
  /\ dst_terms[tlast.ret].sort = BVSort(1)

\* a constant-array term: no operator, an ARRAY sort, the constant value as
\* its one child
IsConstArray(t) ==
  /\ t.op = NullOp
  /\ Len(t.children) = 1
  /\ get_sort_kind(t.sort) = "ARRAY"
  /\ t.name = ""
  /\ t.value = ""

\* C23: every logging term in the hash table has no children exactly when
\* its op is empty, except the constant-array terms (empty op, ARRAY sort,
\* one child); symbols and values have an empty op and no children
C23_ChildrenIffOp ==
  \A id \in hashtable :
    LET t == terms[id] IN
    /\ \/ (t.children = <<>>) <=> (t.op = NullOp)
       \/ IsConstArray(t)
    /\ (t.name # "" \/ t.value # "") => (t.op = NullOp /\ t.children = <<>>)

\* the hash table holds a value, a constant array over it and an application
C23_Witness ==
  /\ \E id \in hashtable : terms[id].value # ""
  /\ \E id \in hashtable : IsConstArray(terms[id])
  /\ \E id \in hashtable : terms[id].op # NullOp /\ terms[id].children # <<>>
  /\ last.call = "make_term" /\ last.err = "BackendFailure"

\* the calls of LoggingSolver that construct a term
ConstructingCalls ==
  {"make_term_bool", "make_symbol", "make_term", "make_term_const_array"}

\* C24: a constructing call that fails because the inner backend raised or
\* because compute_sort raised leaves the term hash table as it was
C24_FailedConstructionKeepsHashTable ==
  [][(/\ last'.call \in ConstructingCalls
      /\ last'.err \in {"BackendFailure", "NotImplemented"})
       => (hashtable' = hashtable /\ terms' = terms)]_vars

\* make_term(op, t) failed in compute_sort with terms in the hash table
C24_Witness ==
  /\ last.call = "make_term"
  /\ last.err = "NotImplemented"
  /\ hashtable # {}


====
